---- MODULE Spec2Model ----
(***************************************************************************)
(* Plan controller: the plan_states table, the REST operations that write  *)
(* it and the scheduler pass (checkAndTriggerEvents) that reads every row, *)
(* dispatches the trial / billing events and writes the notification flags *)
(* back.                                                                   *)
(*                                                                         *)
(* Time is counted in ticks; a calendar day holds TicksPerDay ticks, so a  *)
(* timestamp carries a time of day that setHours(0,0,0,0) removes.         *)
(***************************************************************************)
EXTENDS Integers, Sequences, FiniteSets, TLC

\* ------------------------------------------------------------------ bounds
\* last calendar day the wall clock reaches
MaxDay == 2
\* longest trial duration, in days, drawn as an input
MaxDuration == 14

\* ------------------------------------------------------- program constants
\* scheduler.js:16 divides by 1000*60*60*24 ms, one day; here one day in ticks
TicksPerDay == 4
\* scheduler.js:59 / services.js:4, the fallback trial duration
DefaultTrialDays == 14

Websites == {"w1", "w2"}
PlanIds == {"basic"}

\* the invocations of checkAndTriggerEvents that may be in flight
PassIds == {"p1", "p2"}

\* A nullable column or value is a sequence: <<>> is null, <<v>> holds v.
NULL == <<>>
Some(v) == <<v>>
Val(x) == x[1]

\* values the shared-variables service may return for FREE_TRIAL_DURATION_DAYS
FetchedDurations == {10, 6}

\* the timestamps (ticks, with a time of day) that requests carry
\* a trial started on day -8 ends on day 5 with the default duration and on
\* day 1 or day -3 with a fetched one
TrialStartTimes == {(0 - 8) * TicksPerDay + 1}
BillingTimes == {5 * TicksPerDay + 3, 3 * TicksPerDay}

\* ------------------------------------------------------------ table schema
\* server.js:48-52, the boolean columns of plan_states
FlagColumns ==
    { "free_trial_end_notified_5d", "free_trial_end_notified_3d",
      "free_trial_end_notified_1d", "free_trial_ended_action_taken",
      "billing_date_notified_3d" }

\* the flags checkAndTriggerEvents reads and sets (scheduler.js:92-161)
TrialWarningFlags ==
    { "free_trial_end_notified_5d", "free_trial_end_notified_3d",
      "free_trial_end_notified_1d" }
BillingWarningFlags ==
    { "billing_date_notified_5d", "billing_date_notified_3d",
      "billing_date_notified_1d" }
EndedFlag == "free_trial_ended_action_taken"
TrialFlags == TrialWarningFlags \cup {EndedFlag}
SchedulerFlags == TrialFlags \cup BillingWarningFlags

Thresholds == {5, 3, 1}

TrialFlagOf(k) ==
    CASE k = 5 -> "free_trial_end_notified_5d"
      [] k = 3 -> "free_trial_end_notified_3d"
      [] k = 1 -> "free_trial_end_notified_1d"

BillingFlagOf(k) ==
    CASE k = 5 -> "billing_date_notified_5d"
      [] k = 3 -> "billing_date_notified_3d"
      [] k = 1 -> "billing_date_notified_1d"

VARIABLES
    store,          \* plan_states: website_id -> row, for the rows that exist
    clock,          \* the wall clock's calendar day
    mainBackendUrl, \* services.js: TRUE when the module variable is truthy
    mainServiceApiKey, \* process.env.MAIN_SERVICE_API_KEY is set
    pass,           \* the invocations of checkAndTriggerEvents
    lastOp          \* the operation that made the last step, and its outcome

vars == <<store, clock, mainBackendUrl, mainServiceApiKey, pass, lastOp>>

\* ------------------------------------------------------------- date helpers
\* Date.prototype.setHours(0, 0, 0, 0): the start of the timestamp's day
StartOfDay(t) == t - (t % TicksPerDay)

\* Math.round(n / d) for d > 0: the nearest integer, halves rounded up
MathRound(n, d) == (2 * n + d) \div (2 * d)

\* a slip: the two dates are not brought to the start of their day
getDaysBetweenRaw(date1, date2) ==
    MathRound(date2 - date1, TicksPerDay)

\* scheduler.js getDaysBetween
getDaysBetween(date1, date2) ==
    LET d1 == StartOfDay(date1)
        d2 == StartOfDay(date2)
        diffTime == d2 - d1
    IN  MathRound(diffTime, TicksPerDay)

\* state.<flag> read from a row of SELECT *: a column the table does not
\* have reads as undefined, which is falsy
ReadFlag(state, f) == IF f \in DOMAIN state THEN state[f] ELSE FALSE

\* ------------------------------------------------- planState.service (store)
\* Every store operation takes the table st, the database's CURRENT_TIMESTAMP
\* ts and dbOk (FALSE: pgClient.query rejects), and yields the new table with
\* the value returned, or "throw" for the Error the catch block rethrows.

\* the row INSERT ... VALUES writes (upsertPlanState, no conflict); columns
\* the statement does not name take the table's DEFAULT
InsertedRow(planId, freeTrialStartDate, nextBillingDate, ts) ==
    [ plan_id |-> planId,
      free_trial_start_date |-> freeTrialStartDate,
      next_billing_date |-> nextBillingDate,
      updated_at |-> ts,
      free_trial_end_notified_5d |-> FALSE,
      free_trial_end_notified_3d |-> FALSE,
      free_trial_end_notified_1d |-> FALSE,
      free_trial_ended_action_taken |-> FALSE,
      billing_date_notified_3d |-> FALSE,
      last_scheduler_run |-> NULL ]

\* a slip: the conflict branch forgets to reset the ended-action flag
ConflictUpdatedRowKeepsEnded(old, planId, freeTrialStartDate, nextBillingDate, ts) ==
    [ old EXCEPT !.plan_id = planId,
                 !.free_trial_start_date = freeTrialStartDate,
                 !.next_billing_date = nextBillingDate,
                 !.updated_at = ts,
                 !.free_trial_end_notified_5d = FALSE,
                 !.free_trial_end_notified_3d = FALSE,
                 !.free_trial_end_notified_1d = FALSE,
                 !.billing_date_notified_3d = FALSE,
                 !.last_scheduler_run = NULL ]

\* the row ON CONFLICT (website_id) DO UPDATE SET ... leaves
ConflictUpdatedRow(old, planId, freeTrialStartDate, nextBillingDate, ts) ==
    [ old EXCEPT !.plan_id = planId,
                 !.free_trial_start_date = freeTrialStartDate,
                 !.next_billing_date = nextBillingDate,
                 !.updated_at = ts,
                 !.free_trial_end_notified_5d = FALSE,
                 !.free_trial_end_notified_3d = FALSE,
                 !.free_trial_end_notified_1d = FALSE,
                 !.free_trial_ended_action_taken = FALSE,
                 !.billing_date_notified_3d = FALSE,
                 !.last_scheduler_run = NULL ]

\* st with the row of websiteId set to row (the row is created when absent)
WithRow(st, websiteId, row) ==
    [ w \in DOMAIN st \cup {websiteId} |-> IF w = websiteId THEN row ELSE st[w] ]

upsertPlanState(st, ts, dbOk, websiteId, planId, freeTrialStartDate, nextBillingDate) ==
    IF ~dbOk
    THEN [ store |-> st, result |-> "throw" ]
    ELSE LET row == IF websiteId \in DOMAIN st
                    THEN ConflictUpdatedRow(st[websiteId], planId,
                                            freeTrialStartDate, nextBillingDate, ts)
                    ELSE InsertedRow(planId, freeTrialStartDate, nextBillingDate, ts)
         IN  [ store |-> WithRow(st, websiteId, row), result |-> "row" ]

\* getAllPlanStates: SELECT * FROM plan_states, the rows in the order the
\* database happens to return them (order is a sequence of the website ids)
getAllPlanStates(st, dbOk, order) ==
    IF ~dbOk
    THEN [ rows |-> <<>>, result |-> "throw" ]
    ELSE [ rows |-> [ i \in 1..Len(order) |->
                        [ website_id |-> order[i], row |-> st[order[i]] ] ],
           result |-> "rows" ]

\* a slip: the UPDATE also resets the trial flags, as the upsert does
updateNextBillingDateResettingTrial(st, ts, dbOk, websiteId, newNextBillingDate) ==
    IF ~dbOk
    THEN [ store |-> st, result |-> "throw" ]
    ELSE IF websiteId \notin DOMAIN st
    THEN [ store |-> st, result |-> "false" ]
    ELSE [ store |-> [ st EXCEPT ![websiteId] =
                         [ @ EXCEPT !.next_billing_date = newNextBillingDate,
                                    !.updated_at = ts,
                                    !.free_trial_end_notified_5d = FALSE,
                                    !.free_trial_end_notified_3d = FALSE,
                                    !.free_trial_end_notified_1d = FALSE,
                                    !.free_trial_ended_action_taken = FALSE,
                                    !.billing_date_notified_3d = FALSE ] ],
           result |-> "true" ]

\* a slip: an unknown website gets a row, as with INSERT ... ON CONFLICT
updateNextBillingDateCreatingRow(st, ts, dbOk, websiteId, newNextBillingDate) ==
    IF ~dbOk
    THEN [ store |-> st, result |-> "throw" ]
    ELSE IF websiteId \notin DOMAIN st
    THEN [ store |-> WithRow(st, websiteId,
                             InsertedRow("basic", NULL, newNextBillingDate, ts)),
           result |-> "true" ]
    ELSE [ store |-> [ st EXCEPT ![websiteId] =
                         [ @ EXCEPT !.next_billing_date = newNextBillingDate,
                                    !.updated_at = ts,
                                    !.billing_date_notified_3d = FALSE ] ],
           result |-> "true" ]

\* UPDATE ... WHERE website_id = $2: rowCount 0 when no row matches
updateNextBillingDate(st, ts, dbOk, websiteId, newNextBillingDate) ==
    IF ~dbOk
    THEN [ store |-> st, result |-> "throw" ]
    ELSE IF websiteId \notin DOMAIN st
    THEN [ store |-> st, result |-> "false" ]
    ELSE [ store |-> [ st EXCEPT ![websiteId] =
                         [ @ EXCEPT !.next_billing_date = newNextBillingDate,
                                    !.updated_at = ts,
                                    !.billing_date_notified_3d = FALSE ] ],
           result |-> "true" ]

\* a slip: the UPDATE writes the named flags and clears every other one
FlagsWrittenClearingOthers(row, flags, ts) ==
    [ c \in DOMAIN row |->
        IF c \in DOMAIN flags THEN flags[c]
        ELSE IF c \in FlagColumns THEN FALSE
        ELSE IF c = "updated_at" THEN ts
        ELSE row[c] ]

\* a slip: the UPDATE leaves updated_at alone
FlagsWrittenNoTouch(row, flags, ts) ==
    [ c \in DOMAIN row |-> IF c \in DOMAIN flags THEN flags[c] ELSE row[c] ]

\* a slip: the UPDATE also stamps last_scheduler_run
FlagsWrittenStampingRun(row, flags, ts) ==
    [ c \in DOMAIN row |->
        IF c \in DOMAIN flags THEN flags[c]
        ELSE IF c = "updated_at" THEN ts
        ELSE IF c = "last_scheduler_run" THEN Some(ts)
        ELSE row[c] ]

\* the row UPDATE plan_states SET <key = value, ...>, updated_at = ... leaves
FlagsWritten(row, flags, ts) ==
    [ c \in DOMAIN row |->
        IF c \in DOMAIN flags THEN flags[c]
        ELSE IF c = "updated_at" THEN ts
        ELSE row[c] ]

\* flags is the object passed: a function from the keys to their values. A
\* key that is no column of the table, or no key at all, makes the statement
\* fail as a whole.
updatePlanStateNotificationFlags(st, ts, dbOk, websiteId, flags) ==
    IF ~dbOk \/ DOMAIN flags = {} \/ ~(DOMAIN flags \subseteq FlagColumns)
    THEN [ store |-> st, result |-> "throw" ]
    ELSE IF websiteId \notin DOMAIN st
    THEN [ store |-> st, result |-> "false" ]
    ELSE [ store |-> [ st EXCEPT ![websiteId] = FlagsWritten(@, flags, ts) ],
           result |-> "true" ]

\* a slip: the UPDATE forgets free_trial_ended_action_taken
clearFreeTrialKeepingEnded(st, ts, dbOk, websiteId) ==
    IF ~dbOk \/ websiteId \notin DOMAIN st
    THEN [ store |-> st, result |-> "undefined" ]
    ELSE [ store |-> [ st EXCEPT ![websiteId] =
                         [ @ EXCEPT !.free_trial_start_date = NULL,
                                    !.free_trial_end_notified_5d = FALSE,
                                    !.free_trial_end_notified_3d = FALSE,
                                    !.free_trial_end_notified_1d = FALSE,
                                    !.updated_at = ts ] ],
           result |-> "undefined" ]

\* clearFreeTrial never throws: the catch block only logs
clearFreeTrial(st, ts, dbOk, websiteId) ==
    IF ~dbOk \/ websiteId \notin DOMAIN st
    THEN [ store |-> st, result |-> "undefined" ]
    ELSE [ store |-> [ st EXCEPT ![websiteId] =
                         [ @ EXCEPT !.free_trial_start_date = NULL,
                                    !.free_trial_end_notified_5d = FALSE,
                                    !.free_trial_end_notified_3d = FALSE,
                                    !.free_trial_end_notified_1d = FALSE,
                                    !.free_trial_ended_action_taken = FALSE,
                                    !.updated_at = ts ] ],
           result |-> "undefined" ]

\* ------------------------------------------------------ scheduler: notifier
\* An outbound call is recorded as [event, requested, delivered]: event is
\* the flag of the threshold, requested says an HTTP request was issued,
\* delivered that the backend answered 2xx. thrown says the call's failure
\* escaped to the caller.


\* sendWarningNotification: returns early without a request when the URL or
\* the key is missing; a failed POST is caught and logged
sendWarningNotification(urlSet, keySet, httpOk) ==
    IF ~urlSet \/ ~keySet
    THEN [ requested |-> FALSE, delivered |-> FALSE, thrown |-> FALSE ]
    ELSE [ requested |-> TRUE, delivered |-> httpOk, thrown |-> FALSE ]

\* a slip: no try/catch around the PUT
putFreeTrialEndedUncaught(httpOk) ==
    [ requested |-> TRUE, delivered |-> httpOk, thrown |-> ~httpOk ]

\* the try { await axios.put(.../free-trial-ended) ... } catch of lines
\* 110-121 and 124-135: the flag is set only after the PUT resolved
putFreeTrialEnded(httpOk) ==
    [ requested |-> TRUE, delivered |-> httpOk, thrown |-> FALSE ]

Call(event, r) ==
    [ event |-> event, requested |-> r.requested, delivered |-> r.delivered ]

\* ---------------------------------------------------- scheduler: evaluation
\* freeTrialDuration of lines 56-59: fetched is what fetchSharedVariable
\* returned, NULL (the fetch failed or gave no value) or a number
FreeTrialDuration(fetched) ==
    IF fetched # NULL THEN Val(fetched) ELSE DefaultTrialDays

\* a slip: the trial's first day is not counted
TrialEndDateExclusive(state, freeTrialDuration) ==
    LET trialStartDate == StartOfDay(Val(state.free_trial_start_date))
    IN  StartOfDay(trialStartDate + freeTrialDuration * TicksPerDay)

\* lines 81-86: the last (inclusive) day of the trial
TrialEndDate(state, freeTrialDuration) ==
    LET trialStartDate == StartOfDay(Val(state.free_trial_start_date))
    IN  StartOfDay(trialStartDate + (freeTrialDuration - 1) * TicksPerDay)

\* a slip: the guard forgets the flag
TrialWarningDueIgnoringFlag(state, daysRemaining, k) ==
    daysRemaining = k

\* a slip: <= instead of ===
TrialWarningDueAtMost(state, daysRemaining, k) ==
    daysRemaining <= k /\ ~ReadFlag(state, TrialFlagOf(k))

\* lines 92, 97, 102
TrialWarningDue(state, daysRemaining, k) ==
    daysRemaining = k /\ ~ReadFlag(state, TrialFlagOf(k))

\* a slip: the branch for a trial that ended on an earlier day is missing
TrialEndedDueTodayOnly(state, daysRemaining) ==
    daysRemaining = 0 /\ ~ReadFlag(state, EndedFlag)

\* a slip: the "ends today" branch is missing
TrialEndedDuePastOnly(state, daysRemaining) ==
    daysRemaining < 0 /\ ~ReadFlag(state, EndedFlag)

\* lines 108 and 122: the two branches that issue the PUT
TrialEndedDue(state, daysRemaining) ==
    IF daysRemaining < 0 /\ ~ReadFlag(state, EndedFlag)
    THEN TRUE
    ELSE daysRemaining = 0 /\ ~ReadFlag(state, EndedFlag)


\* a slip: a threshold that was missed is caught up
BillingWarningDueAtMost(state, daysUntilBilling, k) ==
    daysUntilBilling <= k /\ ~ReadFlag(state, BillingFlagOf(k))

\* lines 148, 153, 158
BillingWarningDue(state, daysUntilBilling, k) ==
    daysUntilBilling = k /\ ~ReadFlag(state, BillingFlagOf(k))

\* the object { key: true, ... } over the keys in S
AllTrue(S) == [ f \in S |-> TRUE ]


\* updatedFlags.<flag> = true follows every sendWarningNotification call,
\* whatever the call did (lines 95, 100, 105, 151, 156, 161)
WarningFlags(calls) ==
    { calls[i].event : i \in 1..Len(calls) }

\* a slip: trialEndedActionTaken is set before the PUT is known to have
\* succeeded
TrialMonitoringFlagOnAttempt(state, now, freeTrialDuration, urlSet, keySet, http) ==
    IF state.free_trial_start_date = NULL
    THEN [ calls |-> <<>>, flags |-> {}, thrown |-> FALSE ]
    ELSE
    LET daysRemaining == getDaysBetween(now, TrialEndDate(state, freeTrialDuration))
        warn(k) ==
            IF TrialWarningDue(state, daysRemaining, k)
            THEN << Call(TrialFlagOf(k),
                         sendWarningNotification(urlSet, keySet, http[TrialFlagOf(k)])) >>
            ELSE <<>>
        warnings == warn(5) \o warn(3) \o warn(1)
        put == putFreeTrialEnded(http[EndedFlag])
        ended == TrialEndedDue(state, daysRemaining)
    IN  [ calls |-> warnings \o (IF ended THEN << Call(EndedFlag, put) >> ELSE <<>>),
          flags |-> WarningFlags(warnings)
                      \cup (IF ended THEN {EndedFlag} ELSE {}),
          thrown |-> FALSE ]

\* lines 80-137, the free-trial block for one row; http gives, for every
\* event, whether the backend would answer 2xx
TrialMonitoring(state, now, freeTrialDuration, urlSet, keySet, http) ==
    IF state.free_trial_start_date = NULL
    THEN [ calls |-> <<>>, flags |-> {}, thrown |-> FALSE ]
    ELSE
    LET daysRemaining == getDaysBetween(now, TrialEndDate(state, freeTrialDuration))
        warn(k) ==
            IF TrialWarningDue(state, daysRemaining, k)
            THEN << Call(TrialFlagOf(k),
                         sendWarningNotification(urlSet, keySet, http[TrialFlagOf(k)])) >>
            ELSE <<>>
        warnThrown(k) ==
            /\ TrialWarningDue(state, daysRemaining, k)
            /\ sendWarningNotification(urlSet, keySet, http[TrialFlagOf(k)]).thrown
        warnings == warn(5) \o warn(3) \o warn(1)
        put == putFreeTrialEnded(http[EndedFlag])
        ended == TrialEndedDue(state, daysRemaining)
    IN  [ calls |-> warnings \o (IF ended THEN << Call(EndedFlag, put) >> ELSE <<>>),
          flags |-> WarningFlags(warnings)
                      \cup (IF ended /\ put.delivered THEN {EndedFlag} ELSE {}),
          thrown |-> \/ \E k \in Thresholds : warnThrown(k)
                     \/ ended /\ put.thrown ]

\* lines 140-163, the billing block for one row
BillingMonitoring(state, now, urlSet, keySet, http) ==
    IF state.next_billing_date = NULL
    THEN [ calls |-> <<>>, flags |-> {}, thrown |-> FALSE ]
    ELSE
    LET nextBillingDate == StartOfDay(Val(state.next_billing_date))
        daysUntilBilling == getDaysBetween(now, nextBillingDate)
        warn(k) ==
            IF BillingWarningDue(state, daysUntilBilling, k)
            THEN << Call(BillingFlagOf(k),
                         sendWarningNotification(urlSet, keySet, http[BillingFlagOf(k)])) >>
            ELSE <<>>
        warnThrown(k) ==
            /\ BillingWarningDue(state, daysUntilBilling, k)
            /\ sendWarningNotification(urlSet, keySet, http[BillingFlagOf(k)]).thrown
        warnings == warn(5) \o warn(3) \o warn(1)
    IN  [ calls |-> warnings,
          flags |-> WarningFlags(warnings),
          thrown |-> \E k \in Thresholds : warnThrown(k) ]

\* ------------------------------------------------------------ request bodies
\* A date field of a request body is a sequence: <<>> is an absent field,
\* <<t>> a string that parses to the timestamp t, anything longer a string
\* new Date() cannot parse. "" is an absent (falsy) string field.
Absent == <<>>
Unparsable == <<0, 0>>
\* a slip: a string that does not parse is taken for the epoch
ParsedTimeLenient(s) == IF Len(s) = 1 THEN s ELSE Some(0)

\* new Date(s).getTime(): <<t>>, or NULL for NaN
ParsedTime(s) == IF Len(s) = 1 THEN s ELSE NULL

\* the bodies that pass the controller's validation, for the websites in W
ValidUpsertBodies(W) ==
    [ websiteId : W, planId : PlanIds,
      freeTrialStartDate : {Absent} \cup { Some(t) : t \in TrialStartTimes },
      nextBillingDate : { Some(t) : t \in BillingTimes } ]

\* bodies the validation rejects, one for each of its checks
InvalidUpsertBodies(W) ==
    LET b == CHOOSE v \in ValidUpsertBodies(W) : v.freeTrialStartDate # Absent
    IN  { [ b EXCEPT !.websiteId = "" ],
          [ b EXCEPT !.planId = "" ],
          [ b EXCEPT !.nextBillingDate = Absent ],
          [ b EXCEPT !.nextBillingDate = Unparsable ],
          [ b EXCEPT !.freeTrialStartDate = Unparsable ] }

UpsertBodies(W) == ValidUpsertBodies(W) \cup InvalidUpsertBodies(W)

BillingDateInputs == {Absent, Unparsable} \cup { Some(t) : t \in BillingTimes }

\* ------------------------------------------------------------------- state
\* CURRENT_TIMESTAMP of a statement executed now
Timestamp == clock * TicksPerDay

\* pass[p] holds the locals of invocation p: planStates is what the for loop
\* has not finished yet (its head is the row being processed), updatedFlags
\* the keys set so far for that row, calls the outbound calls made for it
IdlePass ==
    [ pc |-> "idle", planStates |-> <<>>, now |-> 0,
      freeTrialDuration |-> DefaultTrialDays,
      updatedFlags |-> {}, calls |-> <<>> ]

\* lastOp describes the step just taken: op names the operation, p the
\* invocation of checkAndTriggerEvents that took it ("" if none), w the
\* website it addressed ("" if none), result what it returned ("throw": an
\* exception left it), dbOk whether the database answered, hadFlags the
\* true flags of w's row before the step, calls the outbound calls of the
\* step (for persist: all calls made for the row), flags the keys passed to
\* updatePlanStateNotificationFlags, remaining the rows of the pass not yet
\* processed when the step ended
NoOp ==
    [ op |-> "init", p |-> "", w |-> "", result |-> "", dbOk |-> TRUE,
      hadFlags |-> {},
      calls |-> <<>>, flags |-> {}, remaining |-> 0 ]

TrueFlags(w) ==
    IF w \in DOMAIN store THEN { f \in FlagColumns : store[w][f] } ELSE {}

Op(op, w, dbOk, result) ==
    [ NoOp EXCEPT !.op = op, !.w = w, !.dbOk = dbOk, !.result = result,
                  !.hadFlags = TrueFlags(w) ]

Init ==
    /\ store = << >>
    /\ clock = 0
    /\ mainBackendUrl \in BOOLEAN
    /\ mainServiceApiKey \in BOOLEAN
    /\ pass = [ p \in PassIds |-> IdlePass ]
    /\ lastOp = NoOp

\* ----------------------------------------------------------------- requests
\* POST /plan-states (upsertPlanStateController)
UpsertPlanStateController(body, dbOk) ==
    LET websiteId == body.websiteId
        planId == body.planId
        freeTrialStartDate == body.freeTrialStartDate
        nextBillingDate == body.nextBillingDate
        parsedFreeTrialStartDate ==
            IF freeTrialStartDate # Absent THEN ParsedTime(freeTrialStartDate) ELSE NULL
        parsedNextBillingDate == ParsedTime(nextBillingDate)
        r == upsertPlanState(store, Timestamp, dbOk, websiteId, planId,
                             parsedFreeTrialStartDate, parsedNextBillingDate)
    IN  IF websiteId = "" \/ planId = "" \/ nextBillingDate = Absent
        THEN /\ lastOp' = Op("upsert", websiteId, TRUE, "400")
             /\ UNCHANGED <<store, clock, mainBackendUrl, mainServiceApiKey, pass>>
        ELSE IF freeTrialStartDate # Absent /\ parsedFreeTrialStartDate = NULL
        THEN /\ lastOp' = Op("upsert", websiteId, TRUE, "400")
             /\ UNCHANGED <<store, clock, mainBackendUrl, mainServiceApiKey, pass>>
        ELSE IF parsedNextBillingDate = NULL
        THEN /\ lastOp' = Op("upsert", websiteId, TRUE, "400")
             /\ UNCHANGED <<store, clock, mainBackendUrl, mainServiceApiKey, pass>>
        ELSE /\ store' = r.store
             /\ lastOp' = Op("upsert", websiteId, dbOk,
                             IF r.result = "throw" THEN "500" ELSE "200")
             /\ UNCHANGED <<clock, mainBackendUrl, mainServiceApiKey, pass>>

\* PUT /plan-states/:websiteId/update-billing-date (updateBillingDateController)
UpdateBillingDateController(websiteId, nextBillingDate, dbOk) ==
    LET parsedNextBillingDate == ParsedTime(nextBillingDate)
        r == updateNextBillingDate(store, Timestamp, dbOk, websiteId,
                                   parsedNextBillingDate)
    IN  IF nextBillingDate = Absent \/ parsedNextBillingDate = NULL
        THEN /\ lastOp' = Op("updateBillingDate", websiteId, TRUE, "400")
             /\ UNCHANGED <<store, clock, mainBackendUrl, mainServiceApiKey, pass>>
        ELSE /\ store' = r.store
             /\ lastOp' = Op("updateBillingDate", websiteId, dbOk,
                             CASE r.result = "throw" -> "500"
                               [] r.result = "true" -> "200"
                               [] OTHER -> "404")
             /\ UNCHANGED <<clock, mainBackendUrl, mainServiceApiKey, pass>>

\* a call of the exported clearFreeTrial
ClearFreeTrial(websiteId, dbOk) ==
    LET r == clearFreeTrial(store, Timestamp, dbOk, websiteId)
    IN  /\ store' = r.store
        /\ lastOp' = Op("clearFreeTrial", websiteId, dbOk, r.result)
        /\ UNCHANGED <<clock, mainBackendUrl, mainServiceApiKey, pass>>

\* a call of the exported updatePlanStateNotificationFlags with the object
\* { key: true, ... } over the keys in flagSet
UpdatePlanStateNotificationFlags(websiteId, flagSet, dbOk) ==
    LET r == updatePlanStateNotificationFlags(store, Timestamp, dbOk, websiteId,
                                              AllTrue(flagSet))
    IN  /\ store' = r.store
        /\ lastOp' = [ Op("updateFlags", websiteId, dbOk, r.result)
                       EXCEPT !.flags = flagSet ]
        /\ UNCHANGED <<clock, mainBackendUrl, mainServiceApiKey, pass>>

\* midnight passes
AdvanceDay ==
    /\ clock < MaxDay
    /\ clock' = clock + 1
    /\ lastOp' = Op("advanceDay", "", TRUE, "")
    /\ UNCHANGED <<store, mainBackendUrl, mainServiceApiKey, pass>>

\* --------------------------------------------------- checkAndTriggerEvents
\* One invocation p walks: start (lines 54-67) and then, for each row,
\* trial (70-137), billing (139-163) and persist (165-168). Each of these
\* holds at most one awaited outbound or store call. When the invocation
\* ends its locals are gone: pass[p] is idle again, and lastOp tells whether
\* the promise resolved ("done") or an exception left it ("throw").

Running(p) == pass[p].pc # "idle"

\* the orders in which SELECT * may return the rows
Orders(S) ==
    { o \in [ 1..Cardinality(S) -> S ] :
        \A i, j \in 1..Cardinality(S) : i # j => o[i] # o[j] }

\* the row being processed and its website
CurState(p) == Head(pass[p].planStates).row
CurWebsite(p) == Head(pass[p].planStates).website_id

\* a slip: the loop does not move on from the row it has finished
LoopStuck(q, rest) ==
    LET rows == IF q.planStates # <<>> THEN q.planStates ELSE rest
    IN  IF rows # <<>>
        THEN [ q EXCEPT !.pc = "trial", !.planStates = rows,
                        !.updatedFlags = {}, !.calls = <<>> ]
        ELSE IdlePass

\* the pass record when the for loop meets the rows rest: it takes the first
\* of them, or the function returns
Loop(q, rest) ==
    IF rest # <<>>
    THEN [ q EXCEPT !.pc = "trial", !.planStates = rest,
                    !.updatedFlags = {}, !.calls = <<>> ]
    ELSE IdlePass

\* what the step that leaves the pass record q reports as its result
Ended(q, result) == IF q.pc = "idle" THEN "done" ELSE result

\* lines 54-67: fetch the duration, read all rows, take now
StartPass(p) ==
    /\ ~Running(p)
    /\ \E fetched \in {NULL} \cup { Some(d) : d \in FetchedDurations },
          dbOk \in BOOLEAN,
          timeOfDay \in 0..(TicksPerDay - 1),
          order \in Orders(DOMAIN store) :
        LET r == getAllPlanStates(store, dbOk, order)
            started == [ IdlePass EXCEPT
                           !.now = StartOfDay(Timestamp + timeOfDay),
                           !.freeTrialDuration = FreeTrialDuration(fetched) ]
            q == IF r.result = "throw" THEN IdlePass ELSE Loop(started, r.rows)
        IN  /\ pass' = [ pass EXCEPT ![p] = q ]
            /\ lastOp' = [ Op("start", "", dbOk,
                              IF r.result = "throw" THEN "throw" ELSE Ended(q, ""))
                           EXCEPT !.p = p, !.remaining = Len(q.planStates) ]
    /\ UNCHANGED <<store, clock, mainBackendUrl, mainServiceApiKey>>

\* lines 70-137 for the current row
TrialStep(p) ==
    /\ pass[p].pc = "trial"
    /\ \E http \in [ TrialFlags -> BOOLEAN ] :
        LET r == TrialMonitoring(CurState(p), pass[p].now, pass[p].freeTrialDuration,
                                 mainBackendUrl, mainServiceApiKey, http)
            rest == Tail(pass[p].planStates)
            q == IF ~mainBackendUrl THEN Loop(pass[p], rest)
                 ELSE IF r.thrown THEN IdlePass
                 ELSE [ pass[p] EXCEPT !.pc = "billing",
                                       !.updatedFlags = r.flags,
                                       !.calls = r.calls ]
        IN  /\ pass' = [ pass EXCEPT ![p] = q ]
            /\ lastOp' = [ Op("trial", CurWebsite(p), TRUE,
                              IF ~mainBackendUrl THEN Ended(q, "continue")
                              ELSE IF r.thrown THEN "throw" ELSE "")
                           EXCEPT !.p = p,
                                  !.calls = IF mainBackendUrl THEN r.calls ELSE <<>>,
                                  !.remaining = IF mainBackendUrl /\ ~r.thrown
                                                THEN Len(rest) + 1 ELSE Len(rest) ]
    /\ UNCHANGED <<store, clock, mainBackendUrl, mainServiceApiKey>>

\* lines 139-163 for the current row
BillingStep(p) ==
    /\ pass[p].pc = "billing"
    /\ \E http \in [ BillingWarningFlags -> BOOLEAN ] :
        LET r == BillingMonitoring(CurState(p), pass[p].now,
                                   mainBackendUrl, mainServiceApiKey, http)
            q == IF r.thrown THEN IdlePass
                 ELSE [ pass[p] EXCEPT !.pc = "persist",
                                       !.updatedFlags = @ \cup r.flags,
                                       !.calls = @ \o r.calls ]
        IN  /\ pass' = [ pass EXCEPT ![p] = q ]
            /\ lastOp' = [ Op("billing", CurWebsite(p), TRUE,
                              IF r.thrown THEN "throw" ELSE "")
                           EXCEPT !.p = p,
                                  !.calls = r.calls,
                                  !.remaining = Len(pass[p].planStates)
                                                - (IF r.thrown THEN 1 ELSE 0) ]
    /\ UNCHANGED <<store, clock, mainBackendUrl, mainServiceApiKey>>

\* a slip: the pass writes back every flag of the row as it read it, with
\* the flags it set (a read-modify-write of the whole row)
PersistStepWholeRow(p) ==
    /\ pass[p].pc = "persist"
    /\ LET rest == Tail(pass[p].planStates)
           seen == [ Op("persist", CurWebsite(p), TRUE, "")
                     EXCEPT !.p = p,
                            !.calls = pass[p].calls,
                            !.flags = pass[p].updatedFlags,
                            !.remaining = Len(rest) ]
           whole == [ f \in FlagColumns |->
                        CurState(p)[f] \/ f \in pass[p].updatedFlags ]
       IN  IF pass[p].updatedFlags = {}
           THEN /\ pass' = [ pass EXCEPT ![p] = Loop(@, rest) ]
                /\ lastOp' = [ seen EXCEPT !.result = Ended(pass'[p], "none") ]
                /\ UNCHANGED store
           ELSE \E dbOk \in BOOLEAN :
                LET r == IF pass[p].updatedFlags \subseteq FlagColumns
                         THEN updatePlanStateNotificationFlags(store, Timestamp,
                                  dbOk, CurWebsite(p), whole)
                         ELSE [ store |-> store, result |-> "throw" ]
                IN  /\ store' = r.store
                    /\ pass' = [ pass EXCEPT ![p] =
                                   IF r.result = "throw" THEN IdlePass
                                   ELSE Loop(@, rest) ]
                    /\ lastOp' = [ seen EXCEPT !.dbOk = dbOk,
                                               !.result = r.result ]
    /\ UNCHANGED <<clock, mainBackendUrl, mainServiceApiKey>>

\* lines 165-168 for the current row
PersistStep(p) ==
    /\ pass[p].pc = "persist"
    /\ LET rest == Tail(pass[p].planStates)
           seen == [ Op("persist", CurWebsite(p), TRUE, "")
                     EXCEPT !.p = p,
                            !.calls = pass[p].calls,
                            !.flags = pass[p].updatedFlags,
                            !.remaining = Len(rest) ]
       IN  IF pass[p].updatedFlags = {}
           THEN /\ pass' = [ pass EXCEPT ![p] = Loop(@, rest) ]
                /\ lastOp' = [ seen EXCEPT !.result = Ended(pass'[p], "none") ]
                /\ UNCHANGED store
           ELSE \E dbOk \in BOOLEAN :
                LET r == updatePlanStateNotificationFlags(store, Timestamp, dbOk,
                             CurWebsite(p), AllTrue(pass[p].updatedFlags))
                IN  /\ store' = r.store
                    /\ pass' = [ pass EXCEPT ![p] =
                                   IF r.result = "throw" THEN IdlePass
                                   ELSE Loop(@, rest) ]
                    /\ lastOp' = [ seen EXCEPT !.dbOk = dbOk,
                                               !.result = r.result ]
    /\ UNCHANGED <<clock, mainBackendUrl, mainServiceApiKey>>

\* --------------------------------------------------------- specifications
\* the requests that address the websites in W
UpsertRequests(W) ==
    \E body \in UpsertBodies(W), dbOk \in BOOLEAN :
        UpsertPlanStateController(body, dbOk)

UpdateBillingDateRequests(W) ==
    \E websiteId \in W, nextBillingDate \in BillingDateInputs, dbOk \in BOOLEAN :
        UpdateBillingDateController(websiteId, nextBillingDate, dbOk)

ClearFreeTrialCalls(W) ==
    \E websiteId \in W, dbOk \in BOOLEAN :
        ClearFreeTrial(websiteId, dbOk)

Quiet == \A p \in PassIds : ~Running(p)

\* Sequential runs over one website: one invocation of checkAndTriggerEvents
\* at a time (a tick finds the previous pass finished), and requests and
\* midnight fall between passes.
Next ==
    \/ Quiet /\ UpsertRequests({"w1"})
    \/ Quiet /\ UpdateBillingDateRequests({"w1"})
    \/ Quiet /\ ClearFreeTrialCalls({"w1"})
    \/ Quiet /\ AdvanceDay
    \/ StartPass("p1")
    \/ TrialStep("p1")
    \/ BillingStep("p1")
    \/ PersistStep("p1")

Spec == Init /\ [][Next]_vars

\* Sequential runs over a table of two rows: both websites are upserted
\* with a trial and the later billing date, and passes walk both rows.
TwoPlanBodies ==
    { b \in ValidUpsertBodies(Websites) :
        /\ b.freeTrialStartDate # Absent
        /\ \A t \in BillingTimes : Val(b.nextBillingDate) >= t }

TwoPlanUpserts ==
    \E body \in TwoPlanBodies, dbOk \in BOOLEAN :
        UpsertPlanStateController(body, dbOk)

NextTwoPlans ==
    \/ Quiet /\ TwoPlanUpserts
    \/ Quiet /\ AdvanceDay
    \/ StartPass("p1")
    \/ TrialStep("p1")
    \/ BillingStep("p1")
    \/ PersistStep("p1")

SpecTwoPlans == Init /\ [][NextTwoPlans]_vars


\* the flag objects a caller passes to updatePlanStateNotificationFlags: keys
\* that are columns, a key the table does not have, and no key at all
FlagSetInputs ==
    { {"free_trial_end_notified_5d"},
      {"free_trial_end_notified_3d", "free_trial_end_notified_1d"},
      {"free_trial_ended_action_taken", "billing_date_notified_3d"},
      {"billing_date_notified_5d"},
      {} }

UpdateFlagsCalls(W) ==
    \E websiteId \in W, flagSet \in FlagSetInputs, dbOk \in BOOLEAN :
        UpdatePlanStateNotificationFlags(websiteId, flagSet, dbOk)

\* The store's operations called directly: "w1" has a row once it is
\* upserted, "w2" never has one.
NextStore ==
    \/ UpsertRequests({"w1"})
    \/ UpdateBillingDateRequests(Websites)
    \/ ClearFreeTrialCalls(Websites)
    \/ UpdateFlagsCalls(Websites)
    \/ AdvanceDay

\* the configuration plays no part in the store's operations
InitStore ==
    /\ Init
    /\ mainBackendUrl
    /\ mainServiceApiKey

SpecStore == InitStore /\ [][NextStore]_vars


\* the calls of the step just taken that were made for event f
CallsFor(f) == { i \in 1..Len(lastOp.calls) : lastOp.calls[i].event = f }

\* daysRemaining of a row for the pass p that holds it
DaysRemainingIn(p, state) ==
    getDaysBetween(pass[p].now, TrialEndDate(state, pass[p].freeTrialDuration))

C2_UpsertResetsFlags ==
    (lastOp.op = "upsert" /\ lastOp.result = "200") =>
        LET row == store[lastOp.w]
        IN  /\ \A f \in FlagColumns : row[f] = FALSE
            /\ \A f \in SchedulerFlags : ~ReadFlag(row, f)
            /\ row.last_scheduler_run = NULL

\* an upsert succeeded on a row that held true flags
C2_Witness ==
    /\ lastOp.op = "upsert"
    /\ lastOp.result = "200"
    /\ EndedFlag \in lastOp.hadFlags
    /\ Cardinality(lastOp.hadFlags) >= 2

\* C3: a step of a scheduler pass never turns a notification flag from true
\* to false; a flag is reset only by upsertPlanState, by clearFreeTrial or,
\* for a billing flag, by updateNextBillingDate.
C3_FlagsMonotonic ==
    [][ \A w \in DOMAIN store : \A f \in FlagColumns :
          (store[w][f] /\ ~store'[w][f]) =>
             \/ lastOp'.op \in {"upsert", "clearFreeTrial"}
             \/ lastOp'.op = "updateBillingDate" /\ f \in BillingWarningFlags ]_vars

\* a pass wrote new flags into a row that held true flags, and they stand
C3_Witness ==
    /\ lastOp.op = "persist"
    /\ lastOp.result = "true"
    /\ lastOp.hadFlags # {}
    /\ lastOp.flags \ lastOp.hadFlags # {}
    /\ \A f \in lastOp.hadFlags \cup lastOp.flags : store[lastOp.w][f]

\* C4: a failed or skipped warning dispatch does not set the flag: when
\* sendWarningNotification for a threshold was not delivered (the POST
\* failed, or no request was made), the pass does not persist that
\* threshold's flag as true.
C4_FailedWarningNotFlagged ==
    (lastOp.op = "persist" /\ lastOp.result = "true") =>
        \A i \in 1..Len(lastOp.calls) :
            LET c == lastOp.calls[i]
            IN  (c.event # EndedFlag /\ ~c.delivered) =>
                    ~(c.event \in lastOp.flags /\ ReadFlag(store[lastOp.w], c.event))

\* C5: the flags a pass writes back for a row are flags of events for which
\* an HTTP request was issued in that pass.
C5_PersistedOnlyAttempted ==
    (lastOp.op = "persist" /\ lastOp.result = "true") =>
        \A f \in lastOp.flags :
            \E i \in 1..Len(lastOp.calls) :
                lastOp.calls[i].event = f /\ lastOp.calls[i].requested

\* C6: processing is failure-isolated per plan: an exception while one row
\* is processed (updatePlanStateNotificationFlags throws) does not end the
\* pass while rows returned by getAllPlanStates are still unprocessed.
C6_FailureIsolated ==
    (lastOp.op \in {"trial", "billing", "persist"} /\ lastOp.result = "throw") =>
        lastOp.remaining = 0

\* C7: a failed outbound call (the warning POST or the free-trial-ended PUT)
\* is caught inside the pass: the step that made it throws nothing and the
\* pass goes on with the same row and the rows behind it; an exception
\* leaves a pass only from a store call.
C7_OutboundFailureNotFatal ==
    /\ (lastOp.op \in {"trial", "billing"}
        /\ \E i \in 1..Len(lastOp.calls) :
              lastOp.calls[i].requested /\ ~lastOp.calls[i].delivered)
       => /\ lastOp.result # "throw"
          /\ pass[lastOp.p].pc = (IF lastOp.op = "trial" THEN "billing" ELSE "persist")
          /\ Len(pass[lastOp.p].planStates) = lastOp.remaining
          /\ CurWebsite(lastOp.p) = lastOp.w
    /\ lastOp.result = "throw" => lastOp.op \in {"start", "persist"}

\* the PUT failed for the first of two rows and the pass goes on
C7_Witness ==
    /\ lastOp.op = "trial"
    /\ \E i \in 1..Len(lastOp.calls) :
          /\ lastOp.calls[i].event = EndedFlag
          /\ ~lastOp.calls[i].delivered
    /\ lastOp.remaining = 2
    /\ pass[lastOp.p].pc = "billing"

\* C8: when a pass evaluates a row with free_trial_start_date set (the
\* backend URL is configured, so the row is not skipped), it issues the
\* free-trial-ended PUT exactly once if daysRemaining <= 0 and
\* free_trial_ended_action_taken is false, and not at all otherwise.
C8_EndedCallIffDue ==
    [][ (lastOp'.op = "trial" /\ mainBackendUrl) =>
          LET p == lastOp'.p
              state == CurState(p)
              puts == { i \in 1..Len(lastOp'.calls) :
                          lastOp'.calls[i].event = EndedFlag
                          /\ lastOp'.calls[i].requested }
          IN  IF state.free_trial_start_date = NULL
              THEN puts = {}
              ELSE Cardinality(puts) =
                     IF DaysRemainingIn(p, state) <= 0
                        /\ ~state.free_trial_ended_action_taken
                     THEN 1 ELSE 0 ]_vars

\* the PUT was issued once for a trial that ended days ago
C8_Witness ==
    /\ lastOp.op = "trial"
    /\ Cardinality(CallsFor(EndedFlag)) = 1
    /\ pass[lastOp.p].pc = "billing"
    /\ DaysRemainingIn(lastOp.p, CurState(lastOp.p)) < 0 - 2

\* C9: when a pass evaluates a row (the backend URL is configured), for
\* each k in {5, 3, 1} it calls sendWarningNotification for the k-day trial
\* warning exactly once if free_trial_start_date is set, daysRemaining = k
\* and the k-day flag is false, and not at all otherwise; with daysRemaining
\* = 5 and no trial flag set the 5-day warning is the step's only call.
C9_TrialWarningIffDue ==
    [][ (lastOp'.op = "trial" /\ mainBackendUrl) =>
          LET p == lastOp'.p
              state == CurState(p)
              sent(k) == { i \in 1..Len(lastOp'.calls) :
                             lastOp'.calls[i].event = TrialFlagOf(k) }
              trialSet == state.free_trial_start_date # NULL
          IN  /\ \A k \in Thresholds :
                    Cardinality(sent(k)) =
                       IF /\ trialSet
                          /\ DaysRemainingIn(p, state) = k
                          /\ ~state[TrialFlagOf(k)]
                       THEN 1 ELSE 0
              /\ (/\ trialSet
                  /\ DaysRemainingIn(p, state) = 5
                  /\ \A f \in TrialFlags : ~state[f])
                 => /\ Len(lastOp'.calls) = 1
                    /\ lastOp'.calls[1].event = TrialFlagOf(5) ]_vars

\* with no flag set and five days remaining, exactly the 5-day warning was sent
C9_Witness ==
    /\ lastOp.op = "trial"
    /\ lastOp.hadFlags = {}
    /\ Len(lastOp.calls) = 1
    /\ lastOp.calls[1].event = TrialFlagOf(5)
    /\ lastOp.calls[1].delivered
    /\ DaysRemainingIn(lastOp.p, CurState(lastOp.p)) = 5

\* C10: for each k in {5, 3, 1}, the flag of a k-day billing warning that a
\* pass sent is persisted when the pass writes the row's flags back and the
\* database answers, so that a later pass at the same now does not send it
\* again.
C10_BillingFlagPersisted ==
    (lastOp.op = "persist" /\ lastOp.dbOk) =>
        \A f \in lastOp.flags \cap BillingWarningFlags :
            ReadFlag(store[lastOp.w], f)

\* Overlapping passes: a cron tick calls checkAndTriggerEvents whether or not
\* the previous invocation has returned, so two invocations may be in flight
\* and their awaits interleave. The row of "w1" is upserted before the first
\* pass starts; from then on the passes are the only writers.
BeforePasses == lastOp.op \in {"init", "upsert", "advanceDay"}

OverlapBodies ==
    { b \in ValidUpsertBodies({"w1"}) :
        /\ b.freeTrialStartDate # Absent
        /\ \A t \in BillingTimes : Val(b.nextBillingDate) <= t }

OverlapUpserts ==
    \E body \in OverlapBodies, dbOk \in BOOLEAN :
        UpsertPlanStateController(body, dbOk)

NextOverlap ==
    \/ BeforePasses /\ OverlapUpserts
    \/ BeforePasses /\ AdvanceDay
    \/ \E p \in PassIds : StartPass(p)
    \/ \E p \in PassIds : TrialStep(p)
    \/ \E p \in PassIds : BillingStep(p)
    \/ \E p \in PassIds : PersistStep(p)

\* the backend URL and the API key are configured, so that every call a
\* pass makes is an HTTP request
InitOverlap ==
    /\ Init
    /\ mainBackendUrl
    /\ mainServiceApiKey

SpecOverlap == InitOverlap /\ [][NextOverlap]_vars

\* Requests interleaved with a pass: the REST handlers run in the same
\* process as the scheduler and are served at every await of a pass, so an
\* upsert may fall between the pass's read of the rows and its write-back.
InterleavedUpserts ==
    \E body \in ValidUpsertBodies({"w1"}), dbOk \in BOOLEAN :
        UpsertPlanStateController(body, dbOk)

NextInterleaved ==
    \/ InterleavedUpserts
    \/ Quiet /\ AdvanceDay
    \/ StartPass("p1")
    \/ TrialStep("p1")
    \/ BillingStep("p1")
    \/ PersistStep("p1")

\* the backend URL and the API key are configured
InitInterleaved ==
    /\ Init
    /\ mainBackendUrl
    /\ mainServiceApiKey

SpecInterleaved == InitInterleaved /\ [][NextInterleaved]_vars

\* Date arithmetic: a pass is in flight over one row whose dates, and whose
\* trial duration and now, are drawn from bounded sets; the pass evaluates
\* the row and further passes follow.
StartInputs ==
    { d * TicksPerDay + t : d \in {0 - 14, 0 - 4, 0}, t \in {0, TicksPerDay - 1} }

BillingInputs == { 1, TicksPerDay + 2, 3 * TicksPerDay }

Durations == 1..MaxDuration

InitDates ==
    /\ \E a \in StartInputs, b \in BillingInputs :
          store = [ w \in {"w1"} |-> InsertedRow("basic", Some(a), Some(b), 0) ]
    /\ clock \in 0..MaxDay
    /\ mainBackendUrl = TRUE
    /\ mainServiceApiKey = TRUE
    /\ \E D \in Durations, timeOfDay \in 0..(TicksPerDay - 1) :
          LET started == [ IdlePass EXCEPT
                             !.now = StartOfDay(Timestamp + timeOfDay),
                             !.freeTrialDuration = D ]
              rows == getAllPlanStates(store, TRUE, <<"w1">>).rows
          IN  pass = [ p \in PassIds |->
                         IF p = "p1" THEN Loop(started, rows) ELSE IdlePass ]
    /\ lastOp = NoOp

NextDates ==
    \/ Quiet /\ AdvanceDay
    \/ StartPass("p1")
    \/ TrialStep("p1")
    \/ BillingStep("p1")
    \/ PersistStep("p1")

SpecDates == InitDates /\ [][NextDates]_vars

\* the columns of a row other than those in S are the same before and after
\* the step, and so is every other row
SameExcept(w, S) ==
    /\ DOMAIN store' = DOMAIN store
    /\ \A v \in DOMAIN store \ {w} : store'[v] = store[v]
    /\ \A c \in DOMAIN store[w] \ S : store'[w][c] = store[w][c]

\* C11: updateNextBillingDate on an existing row sets next_billing_date to
\* the date given, bumps updated_at and leaves every billing flag false; it
\* changes nothing else: plan_id, free_trial_start_date, the four trial flags
\* and every other row stay as they were.
C11_BillingUpdateFrame ==
    [][ \A w \in DOMAIN store, t \in BillingTimes :
          UpdateBillingDateController(w, Some(t), TRUE) =>
             /\ lastOp'.result = "200"
             /\ store'[w].next_billing_date = Some(t)
             /\ store'[w].updated_at = Timestamp
             /\ \A f \in BillingWarningFlags : ~ReadFlag(store'[w], f)
             /\ SameExcept(w, {"next_billing_date", "updated_at",
                               "billing_date_notified_3d"})
             /\ store'[w].plan_id = store[w].plan_id
             /\ store'[w].free_trial_start_date = store[w].free_trial_start_date
             /\ \A f \in TrialFlags : store'[w][f] = store[w][f] ]_vars

\* the billing date of a row holding trial flags and the billing flag was
\* updated: the trial flags stand, the billing flag is reset
C11_Witness ==
    /\ lastOp.op = "updateBillingDate"
    /\ lastOp.result = "200"
    /\ {"free_trial_end_notified_5d", EndedFlag, "billing_date_notified_3d"}
          \subseteq lastOp.hadFlags
    /\ TrueFlags(lastOp.w) = lastOp.hadFlags \ {"billing_date_notified_3d"}

\* C12: updateBillingDate for a website that has no row answers 404 and
\* leaves the store as it was: no row is created, no row is modified.
C12_UnknownWebsiteNotFound ==
    [][ \A w \in Websites \ DOMAIN store, t \in BillingTimes :
          UpdateBillingDateController(w, Some(t), TRUE) =>
             /\ lastOp'.result = "404"
             /\ store' = store ]_vars

\* 404 for the unknown website while another website's row holds flags
C12_Witness ==
    /\ lastOp.op = "updateBillingDate"
    /\ lastOp.result = "404"
    /\ lastOp.w \notin DOMAIN store
    /\ "w1" \in DOMAIN store
    /\ TrueFlags("w1") # {}

\* C13: an upsert request whose websiteId, planId or nextBillingDate is
\* missing, whose nextBillingDate does not parse, or whose freeTrialStartDate
\* is present and does not parse, is answered 400 whether or not the database
\* would answer (upsertPlanState is not called), and the store is unchanged.
C13_InvalidUpsertRejected ==
    [][ \A body \in InvalidUpsertBodies({"w1"}), dbOk \in BOOLEAN :
          UpsertPlanStateController(body, dbOk) =>
             /\ lastOp'.result = "400"
             /\ store' = store ]_vars

\* a request for an existing row holding flags was rejected
C13_Witness ==
    /\ lastOp.op = "upsert"
    /\ lastOp.result = "400"
    /\ lastOp.w \in DOMAIN store
    /\ lastOp.hadFlags # {}
    /\ TrueFlags(lastOp.w) = lastOp.hadFlags

\* C14: updatePlanStateNotificationFlags with a non-empty set of flag columns
\* sets exactly those flags to true and bumps updated_at, leaving every other
\* flag, the dates, plan_id and every other row unchanged; when the website
\* has no row it returns false and the store is unchanged.
C14_FlagUpdateFrame ==
    [][ \A w \in Websites, F \in FlagSetInputs :
          (F # {} /\ F \subseteq FlagColumns
                  /\ UpdatePlanStateNotificationFlags(w, F, TRUE)) =>
             IF w \in DOMAIN store
             THEN /\ lastOp'.result = "true"
                  /\ \A f \in F : store'[w][f] = TRUE
                  /\ store'[w].updated_at = Timestamp
                  /\ SameExcept(w, F \cup {"updated_at"})
             ELSE /\ lastOp'.result = "false"
                  /\ store' = store ]_vars

\* new flags were written, a day after the row's last change, into a row
\* that held other flags
C14_Witness ==
    /\ lastOp.op = "updateFlags"
    /\ lastOp.result = "true"
    /\ lastOp.hadFlags # {}
    /\ lastOp.flags \cap lastOp.hadFlags = {}
    /\ TrueFlags(lastOp.w) = lastOp.hadFlags \cup lastOp.flags
    /\ clock > 0
    /\ store[lastOp.w].updated_at = Timestamp

\* the row as the upsert that began its tracking period left it: the dates
\* of row, every flag false
RowZero(row) == [ c \in DOMAIN row |-> IF c \in FlagColumns THEN FALSE ELSE row[c] ]

\* the sets of flags one pass alone may collect for a row, with the backend
\* answering its requests (ok) or failing them
SinglePassFlagSets(state, now, freeTrialDuration) ==
    { TrialMonitoring(state, now, freeTrialDuration,
                      mainBackendUrl, mainServiceApiKey,
                      [ f \in TrialFlags |-> ok ]).flags
        \cup BillingMonitoring(state, now,
                               mainBackendUrl, mainServiceApiKey,
                               [ f \in BillingWarningFlags |-> ok ]).flags :
      ok \in BOOLEAN }

C16_NoDuplicateCallUnderOverlap ==
    \A p, q \in PassIds :
        (p # q /\ Running(p) /\ Running(q) /\ CurWebsite(p) = CurWebsite(q)) =>
            \A i \in 1..Len(pass[p].calls), j \in 1..Len(pass[q].calls) :
                ~ /\ pass[p].calls[i].event = pass[q].calls[j].event
                  /\ pass[p].calls[i].requested
                  /\ pass[q].calls[j].requested

\* C17: a flag that is true means its event was dispatched after the most
\* recent upsert of the website, also when a request interleaves with a
\* pass: in the state right after a write-back that directly follows a
\* successful upsert of the same website (nothing was dispatched between the
\* two steps) no flag of that website's row is true.
C17_FlagImpliesDispatchedThisPeriod ==
    [][ (/\ lastOp.op = "upsert"
         /\ lastOp.result = "200"
         /\ lastOp'.op = "persist"
         /\ lastOp'.w = lastOp.w)
        => \A f \in FlagColumns : ~store'[lastOp.w][f] ]_vars

\* C18: a pass whose fetch of the trial duration fails uses the last value
\* fetched successfully, and the default only when none was ever fetched:
\* a pass that has just started while an earlier pass still holds a fetched
\* value (every value the service returns differs from the default) does not
\* run with the default.
C18_FallbackToLastKnown ==
    (lastOp.op = "start" /\ Running(lastOp.p)) =>
        \A q \in PassIds \ {lastOp.p} :
            (Running(q) /\ pass[q].freeTrialDuration \in FetchedDurations) =>
                pass[lastOp.p].freeTrialDuration # DefaultTrialDays

\* the number of the calendar day of a timestamp
DayOf(t) == t \div TicksPerDay

\* C19: for every trial start date and every duration D >= 1 of the bounded
\* sets, the pass's trial end date is the start of the day D - 1 days after
\* the day of the start date, and daysRemaining is the number of days from
\* the day of now to that day (start on day -14 and D = 14 give day -1 as
\* the end, and -1 as daysRemaining on day 0).
C19_TrialEndDate ==
    \A p \in PassIds :
        (Running(p) /\ CurState(p).free_trial_start_date # NULL) =>
            LET state == CurState(p)
                D == pass[p].freeTrialDuration
                endDay == DayOf(Val(state.free_trial_start_date)) + (D - 1)
            IN  /\ TrialEndDate(state, D) = endDay * TicksPerDay
                /\ DaysRemainingIn(p, state) = endDay - DayOf(pass[p].now)

\* the trial that started on day -14 with D = 14 ended on day -1; on day 0
\* the pass finds daysRemaining = -1 and issues the free-trial-ended call
C19_Witness ==
    /\ lastOp.op = "trial"
    /\ clock = 0
    /\ pass[lastOp.p].pc = "billing"
    /\ pass[lastOp.p].freeTrialDuration = 14
    /\ DayOf(Val(CurState(lastOp.p).free_trial_start_date)) = 0 - 14
    /\ TrialEndDate(CurState(lastOp.p), 14) = (0 - 1) * TicksPerDay
    /\ DaysRemainingIn(lastOp.p, CurState(lastOp.p)) = 0 - 1
    /\ CallsFor(EndedFlag) # {}

\* the timestamps the state holds: the dates of the rows, the clock, and now
\* of the passes in flight
DatesHeld ==
    {Timestamp}
      \cup { Val(store[w].free_trial_start_date) :
               w \in { v \in DOMAIN store : store[v].free_trial_start_date # NULL } }
      \cup { Val(store[w].next_billing_date) :
               w \in { v \in DOMAIN store : store[v].next_billing_date # NULL } }
      \cup { pass[p].now : p \in { q \in PassIds : Running(q) } }

\* C20: for all dates a, b the state holds, getDaysBetween(a, b) is
\* -getDaysBetween(b, a), it is positive exactly when b's day is after a's
\* day, and it is the same for every time of day on a's day and on b's day.
C20_DaysBetweenAntisymmetric ==
    \A a, b \in DatesHeld :
        /\ getDaysBetween(a, b) = 0 - getDaysBetween(b, a)
        /\ (getDaysBetween(a, b) > 0) <=> (DayOf(b) > DayOf(a))
        /\ \A s, t \in 0..(TicksPerDay - 1) :
              getDaysBetween(DayOf(a) * TicksPerDay + s,
                             DayOf(b) * TicksPerDay + t) = getDaysBetween(a, b)

\* the billing block applied getDaysBetween to a row whose two dates lie on
\* different days at different times of day
C20_Witness ==
    /\ lastOp.op = "billing"
    /\ LET state == store[lastOp.w]
           a == Val(state.free_trial_start_date)
           b == Val(state.next_billing_date)
       IN  /\ a % TicksPerDay # b % TicksPerDay
           /\ b % TicksPerDay # 0
           /\ getDaysBetween(a, b) > 1
           /\ getDaysBetween(b, a) < 0 - 1

\* C23: clearFreeTrial sets free_trial_start_date to null and the four trial
\* flags to false and leaves plan_id, next_billing_date, the billing flags
\* and every other row unchanged; when the store fails it returns without
\* throwing and changes nothing. A pass that evaluates a row whose trial
\* start date is null makes no trial call, and only an upsert gives a row a
\* trial start date again.
C23_ClearFreeTrialFrame ==
    [][ /\ \A w \in Websites, dbOk \in BOOLEAN :
             ClearFreeTrial(w, dbOk) =>
                /\ lastOp'.result = "undefined"
                /\ IF dbOk /\ w \in DOMAIN store
                   THEN /\ store'[w].free_trial_start_date = NULL
                        /\ \A f \in TrialFlags : store'[w][f] = FALSE
                        /\ SameExcept(w, TrialFlags
                                            \cup {"free_trial_start_date", "updated_at"})
                   ELSE store' = store
        /\ (lastOp'.op = "trial" /\ store[lastOp'.w].free_trial_start_date = NULL)
              => lastOp'.calls = <<>>
        /\ \A w \in DOMAIN store :
              (store[w].free_trial_start_date = NULL
                 /\ store'[w].free_trial_start_date # NULL)
              => lastOp'.op = "upsert" ]_vars

\* clearFreeTrial acted on a row that held trial flags and a billing flag:
\* the trial flags are gone, the billing flag and the billing date stand
C23_Witness ==
    /\ lastOp.op = "clearFreeTrial"
    /\ lastOp.dbOk
    /\ lastOp.hadFlags \cap TrialFlags # {}
    /\ lastOp.hadFlags \cap BillingWarningFlags # {}
    /\ TrueFlags(lastOp.w) = lastOp.hadFlags \ TrialFlags
    /\ store[lastOp.w].free_trial_start_date = NULL
    /\ store[lastOp.w].next_billing_date # NULL

\* C24: the four trial conditions test one daysRemaining against 5, 3, 1 and
\* <= 0, so a pass makes at most one trial call for a plan; when the earlier
\* thresholds were skipped (the trial end day is reached with no trial flag
\* set) the one call is the free-trial-ended call.
C24_AtMostOneTrialEvent ==
    lastOp.op = "trial" =>
        /\ Len(lastOp.calls) <= 1
        /\ (/\ pass[lastOp.p].pc = "billing"
            /\ store[lastOp.w].free_trial_start_date # NULL
            /\ lastOp.hadFlags \cap TrialFlags = {}
            /\ DaysRemainingIn(lastOp.p, store[lastOp.w]) <= 0)
           => /\ Len(lastOp.calls) = 1
              /\ lastOp.calls[1].event = EndedFlag

\* the first pass over a plan came days after its trial's end, all three
\* warning thresholds skipped: it made the free-trial-ended call alone
C24_Witness ==
    /\ lastOp.op = "trial"
    /\ pass[lastOp.p].pc = "billing"
    /\ store[lastOp.w].free_trial_start_date # NULL
    /\ lastOp.hadFlags \cap TrialFlags = {}
    /\ DaysRemainingIn(lastOp.p, store[lastOp.w]) < 0 - 1
    /\ Len(lastOp.calls) = 1
    /\ lastOp.calls[1].event = EndedFlag

\* C24 as stated: a pass that finds thresholds skipped (the trial end day
\* reached, no trial flag set) fires more than one trial condition.
C24_SkippedThresholdsFireTogether ==
    (/\ lastOp.op = "trial"
     /\ pass[lastOp.p].pc = "billing"
     /\ store[lastOp.w].free_trial_start_date # NULL
     /\ lastOp.hadFlags \cap TrialFlags = {}
     /\ DaysRemainingIn(lastOp.p, store[lastOp.w]) <= 0)
    => Len(lastOp.calls) > 1

\* whole days from the day of now to the row's trial end day and to its
\* billing day, counted on calendar days
TrialDaysLeft(state, now, freeTrialDuration) ==
    DayOf(Val(state.free_trial_start_date)) + freeTrialDuration - 1 - DayOf(now)

BillingDaysLeft(state, now) ==
    DayOf(Val(state.next_billing_date)) - DayOf(now)

\* C25: a warning is called only by a pass that runs on the day its
\* threshold k equals daysRemaining (daysUntilBilling), and a warning flag
\* becomes true only in the write-back of such a pass: a threshold whose day
\* saw no pass is never sent and its flag stays false. The trial-ended call
\* is made by every pass on or after the trial end day that finds its flag
\* false.
C25_WarningsNotCaughtUp ==
    [][ LET p == lastOp'.p
            q == pass[p]
        IN  /\ lastOp'.op = "trial" =>
                 /\ \A i \in 1..Len(lastOp'.calls), k \in Thresholds :
                       lastOp'.calls[i].event = TrialFlagOf(k) =>
                          TrialDaysLeft(CurState(p), q.now, q.freeTrialDuration) = k
                 /\ (/\ mainBackendUrl
                     /\ CurState(p).free_trial_start_date # NULL
                     /\ ~store[lastOp'.w][EndedFlag]
                     /\ TrialDaysLeft(CurState(p), q.now, q.freeTrialDuration) <= 0)
                    => \E i \in 1..Len(lastOp'.calls) :
                          lastOp'.calls[i].event = EndedFlag
            /\ lastOp'.op = "billing" =>
                 \A i \in 1..Len(lastOp'.calls), k \in Thresholds :
                    lastOp'.calls[i].event = BillingFlagOf(k) =>
                       BillingDaysLeft(CurState(p), q.now) = k
            /\ \A w \in DOMAIN store, k \in Thresholds :
                 /\ (~store[w][TrialFlagOf(k)] /\ store'[w][TrialFlagOf(k)]) =>
                       /\ lastOp'.op = "persist"
                       /\ lastOp'.w = w
                       /\ TrialDaysLeft(store[w], q.now, q.freeTrialDuration) = k
                 /\ (BillingFlagOf(k) \in FlagColumns
                       /\ ~store[w][BillingFlagOf(k)] /\ store'[w][BillingFlagOf(k)]) =>
                       /\ lastOp'.op = "persist"
                       /\ lastOp'.w = w
                       /\ BillingDaysLeft(store[w], q.now) = k ]_vars

\* a pass evaluated a plan between two thresholds: the earlier threshold's
\* day saw no pass, its flag is false, and the pass called nothing
C25_Witness ==
    /\ lastOp.op = "trial"
    /\ mainBackendUrl /\ mainServiceApiKey
    /\ pass[lastOp.p].pc = "billing"
    /\ store[lastOp.w].free_trial_start_date # NULL
    /\ lastOp.calls = <<>>
    /\ \E k \in Thresholds :
          /\ ~store[lastOp.w][TrialFlagOf(k)]
          /\ DaysRemainingIn(lastOp.p, store[lastOp.w]) < k
          /\ DaysRemainingIn(lastOp.p, store[lastOp.w]) > 1

\* the steps of checkAndTriggerEvents
PassOps == {"start", "trial", "billing", "persist"}

\* C27: a step of a pass creates and deletes no row and changes nothing but
\* notification flags and updated_at of the row it is processing; it leaves
\* the store as it is unless it is a write-back with a non-empty set of
\* flags, and with no backend URL configured no step of a pass writes.
C27_PassWritesOnlyFlags ==
    [][ lastOp'.op \in PassOps =>
          /\ DOMAIN store' = DOMAIN store
          /\ \A w \in DOMAIN store :
                /\ w # lastOp'.w => store'[w] = store[w]
                /\ \A c \in DOMAIN store[w] \ (FlagColumns \cup {"updated_at"}) :
                      store'[w][c] = store[w][c]
          /\ (lastOp'.op # "persist" \/ lastOp'.flags = {} \/ ~mainBackendUrl)
                => store' = store ]_vars

\* on a later day than the row's last change a pass made a call for a plan,
\* no flag came of it, and the write-back step left the row untouched while
\* another row stands in the table
C27_Witness ==
    /\ lastOp.op = "persist"
    /\ lastOp.result \in {"none", "done"}
    /\ lastOp.flags = {}
    /\ lastOp.calls # <<>>
    /\ clock > 0
    /\ store[lastOp.w].updated_at # Timestamp
    /\ DOMAIN store = Websites

\* C28: the flags fired for one plan in a pass are persisted by one update,
\* and a fired trial flag is never lost because a billing flag fired in the
\* same pass: after a write-back that the database answered, every trial
\* flag the pass collected is true in the store.
C28_FiredTrialFlagPersisted ==
    (lastOp.op = "persist" /\ lastOp.dbOk /\ lastOp.flags # {}) =>
        \A f \in lastOp.flags \cap TrialFlags : store[lastOp.w][f]

\* the free-trial-ended calls of the step that leads to the next state, and
\* those of them the backend accepted
EndedCalls == { i \in 1..Len(lastOp'.calls) : lastOp'.calls[i].event = EndedFlag }
EndedDelivered == { i \in EndedCalls : lastOp'.calls[i].delivered }

\* C29: in sequential passes free_trial_ended_action_taken becomes true only
\* in the write-back of a pass whose free-trial-ended PUT was accepted; the
\* write-back of a pass whose PUT failed leaves it false, and every pass
\* that finds it false on or after the trial end day issues the PUT (again);
\* a pass issues the PUT only while the flag is false in the store.
C29_EndedFlagOnlyAfterAcceptedPut ==
    [][ LET p == lastOp'.p
            w == lastOp'.w
        IN  /\ \A v \in DOMAIN store :
                 (~store[v][EndedFlag] /\ store'[v][EndedFlag]) =>
                    /\ lastOp'.op = "persist"
                    /\ v = w
                    /\ EndedDelivered # {}
            /\ (lastOp'.op = "persist" /\ EndedCalls # {} /\ EndedDelivered = {})
                 => ~store'[w][EndedFlag]
            /\ lastOp'.op = "trial" =>
                 /\ EndedCalls # {} => ~store[w][EndedFlag]
                 /\ (/\ mainBackendUrl
                     /\ store[w].free_trial_start_date # NULL
                     /\ ~store[w][EndedFlag]
                     /\ TrialDaysLeft(store[w], pass[p].now,
                                      pass[p].freeTrialDuration) <= 0)
                    => EndedCalls # {} ]_vars

\* the backend accepted the PUT and the write-back of that pass set the flag
\* of a row that held a warning flag from an earlier pass
C29_Witness ==
    /\ lastOp.op = "persist"
    /\ lastOp.result = "true"
    /\ \E i \in 1..Len(lastOp.calls) :
          lastOp.calls[i].event = EndedFlag /\ lastOp.calls[i].delivered
    /\ EndedFlag \notin lastOp.hadFlags
    /\ lastOp.hadFlags \cap TrialWarningFlags # {}
    /\ store[lastOp.w][EndedFlag]

\* ------------------------------------------------------------- the process
\* The process from its start: initializeApp (server.js 33-83), then the
\* scheduler's passes and the requests. lastOp.result = "exit" says the
\* process has terminated; nothing happens after that.

Booting == lastOp.op = "init"
Exited == lastOp.result = "exit"
SchedulerStarted == lastOp.op = "initializeApp" /\ lastOp.result = "started"
Serving == ~Booting /\ ~Exited /\ ~SchedulerStarted

\* the promise checkAndTriggerEvents() returned has just been rejected;
\* startScheduler attaches no handler to it (lines 180-185)
Rejected == lastOp.op \in PassOps /\ lastOp.result = "throw"

\* initializeApp: connectPostgres and CREATE TABLE (dbOk says whether both
\* succeeded), initializeSharedServices, startScheduler; the catch block
\* calls process.exit(1)
InitializeApp(dbOk) ==
    /\ Booting
    /\ lastOp' = Op("initializeApp", "", dbOk, IF dbOk THEN "started" ELSE "exit")
    /\ UNCHANGED <<store, clock, mainBackendUrl, mainServiceApiKey, pass>>

\* The rejection of a promise nobody handles, with no unhandledRejection
\* listener installed: the runtime either terminates the process (the
\* default since Node 15) or prints a warning and goes on (earlier
\* versions, or --unhandled-rejections=warn).
UnhandledRejection ==
    /\ Rejected
    /\ \E fatal \in BOOLEAN :
          lastOp' = Op("unhandledRejection", "", lastOp.dbOk,
                       IF fatal THEN "exit" ELSE "warned")
    /\ UNCHANGED <<store, clock, mainBackendUrl, mainServiceApiKey, pass>>

\* the table may hold rows of an earlier run of the process
InitProcess ==
    /\ \/ store = << >>
       \/ \E t \in TrialStartTimes, b \in BillingTimes :
             store = WithRow(<< >>, "w1", InsertedRow("basic", Some(t), Some(b), 0))
    /\ clock = 0
    /\ mainBackendUrl \in BOOLEAN
    /\ mainServiceApiKey \in BOOLEAN
    /\ pass = [ p \in PassIds |-> IdlePass ]
    /\ lastOp = NoOp

\* startScheduler calls checkAndTriggerEvents() at once (line 180) and then
\* on every tick of the cron job
NextProcess ==
    \/ \E dbOk \in BOOLEAN : InitializeApp(dbOk)
    \/ SchedulerStarted /\ StartPass("p1")
    \/ Serving /\ UnhandledRejection
    \/ Serving /\ ~Rejected /\ Quiet /\ UpsertRequests({"w1"})
    \/ Serving /\ ~Rejected /\ Quiet /\ AdvanceDay
    \/ Serving /\ ~Rejected /\ StartPass("p1")
    \/ Serving /\ ~Rejected /\ TrialStep("p1")
    \/ Serving /\ ~Rejected /\ BillingStep("p1")
    \/ Serving /\ ~Rejected /\ PersistStep("p1")

\* every store query and outbound call of a pass eventually returns or fails
SpecProcess ==
    /\ InitProcess
    /\ [][NextProcess]_vars
    /\ WF_vars(TrialStep("p1"))
    /\ WF_vars(BillingStep("p1"))
    /\ WF_vars(PersistStep("p1"))

\* C21: once initializeApp has started the scheduler the next thing that
\* happens is a pass, and every pass that has started eventually ends (it
\* returns, or an exception leaves it), given that each of its store queries
\* and outbound calls returns or fails.
C21_PassTerminates ==
    /\ [][ SchedulerStarted => lastOp'.op = "start" ]_vars
    /\ Running("p1") ~> ~Running("p1")

\* a pass that walked a row and made a call for it has returned
C21_Witness ==
    /\ lastOp.op = "persist"
    /\ lastOp.result = "done"
    /\ lastOp.calls # <<>>
    /\ ~Running("p1")

\* C22: only startup failures are process-fatal: the process terminates
\* only in initializeApp; an error in steady state (a store call failing
\* inside a pass) is recovered and the process goes on.
C22_OnlyStartupFatal ==
    Exited => lastOp.op = "initializeApp"

\* --------------------------------------------------- passes that keep coming
\* Two plans whose trial began fourteen days before the first day, so that
\* it has ended under every duration a pass may use, with the billing date
\* five days after the first day.
LiveBodies ==
    [ websiteId : Websites, planId : PlanIds,
      freeTrialStartDate : { Some((0 - DefaultTrialDays) * TicksPerDay + 1) },
      nextBillingDate : { Some(5 * TicksPerDay + 3) } ]

LiveUpserts ==
    \E body \in LiveBodies, dbOk \in BOOLEAN :
        UpsertPlanStateController(body, dbOk)

NextLive ==
    \/ Quiet /\ LiveUpserts
    \/ Quiet /\ AdvanceDay
    \/ StartPass("p1")
    \/ TrialStep("p1")
    \/ BillingStep("p1")
    \/ PersistStep("p1")

InitLive ==
    /\ Init
    /\ mainBackendUrl
    /\ mainServiceApiKey

\* a pass starts and the database returns the rows
StartPassOk == StartPass("p1") /\ lastOp'.result # "throw"

\* the backend accepts the free-trial-ended PUT made for w
PutAccepted(w) ==
    /\ TrialStep("p1")
    /\ lastOp'.w = w
    /\ \E i \in 1..Len(lastOp'.calls) :
          lastOp'.calls[i].event = EndedFlag /\ lastOp'.calls[i].delivered

\* the database carries out the flag update for w
PersistOk(w) == PersistStep("p1") /\ lastOp'.w = w /\ lastOp'.result = "true"

\* The cron job keeps triggering passes, days go by, every awaited call of
\* a pass returns or fails, and the database and the backend do not refuse
\* for ever what they are asked again and again.
SpecLive ==
    /\ InitLive
    /\ [][NextLive]_vars
    /\ SF_vars(Quiet /\ AdvanceDay)
    /\ SF_vars(StartPassOk)
    /\ WF_vars(TrialStep("p1"))
    /\ WF_vars(BillingStep("p1"))
    /\ WF_vars(PersistStep("p1"))
    /\ SF_vars(PutAccepted("w1"))
    /\ \A w \in Websites : SF_vars(PersistOk(w))

\* the trial end day of w's row is today or earlier under every duration a
\* pass may use
TrialEndReached(w) ==
    /\ w \in DOMAIN store
    /\ store[w].free_trial_start_date # NULL
    /\ \A d \in {DefaultTrialDays} \cup FetchedDurations :
          TrialDaysLeft(store[w], Timestamp, d) <= 0

\* the plan of w has just been upserted
Upserted(w) == lastOp.op = "upsert" /\ lastOp.w = w /\ lastOp.result = "200"

====
